---- MODULE Spec2Model ----
(***************************************************************************)
(* Model of the Planet component (script setup block of the scheduled      *)
(* variant, src/unnamed/part_000): the render lifecycle, the visibility     *)
(* driven frame scheduler and the camera auto-framing.                      *)
(*                                                                         *)
(* The browser is single threaded: every handler runs to completion, so    *)
(* each handler is one action.  A signal's change and the dispatch of its  *)
(* event happen in the same browser task, so the change of the signal and  *)
(* the run of the listeners attached at that moment are one step.          *)
(*                                                                         *)
(* Numbers are fixed point: lengths, distances, tangents, aspect and       *)
(* padding in 1/1000, angles and the moon offset in 1/10000.               *)
(***************************************************************************)
EXTENDS Integers, Sequences, FiniteSets, TLC

VARIABLES
    phase,            \* position in the component lifecycle
    container,        \* container.value is an element (template ref is set)
    reducedMotion,    \* the media query's live `matches`
    docHidden,        \* document.hidden
    mql,              \* prefersReducedMotion has been assigned (line 168)
    frameId,          \* let frameId (line 17)
    pending,          \* handles outstanding in the requestAnimationFrame primitive
    nextHandle,       \* next handle requestAnimationFrame hands out
    isVisible,        \* let isVisible = true (line 21)
    orbitAngle,       \* let orbitAngle = 0 (line 20)
    moonRotY,         \* moonOrbit.rotation.y
    moonY,            \* moon.position.y
    displayed,        \* <<rotation, offset>> drawn by the last renderer.render
    renderer,         \* "none" | "live" | "disposed"
    camera,           \* [aspect, distance, near, far, radius]
    rendererSize,     \* <<width, height>> of the last renderer.setSize
    ticks,            \* fired frame callbacks that ran the AnimationDriver
    fitPadding,       \* props.fitPadding
    prmListeners,     \* listeners of the media query's change event
    visListeners,     \* listeners of document visibilitychange
    resizeListeners,  \* listeners of window resize
    ioObserving,      \* the IntersectionObserver observes the container
    log,              \* calls and effects of the handler that ran last
    last              \* the handler or event of the last step

vars == <<phase, container, reducedMotion, docHidden, mql, frameId, pending,
          nextHandle, isVisible, orbitAngle, moonRotY, moonY, displayed,
          renderer, camera, rendererSize, ticks, fitPadding, prmListeners, visListeners, resizeListeners,
          ioObserving, log, last>>

-----------------------------------------------------------------------------
(* Bounds of the model *)

\* handles requestAnimationFrame may hand out: 1..MaxHandle
MaxHandle == 4
\* frames that may run the AnimationDriver
MaxTicks == 3
\* container width and height range over 1..MaxDim (in units of 100 px)
MaxDim == 2

\* radii the bounding sphere of rootGroup takes (three.js computes it from the
\* meshes; it is never smaller than the planet's own box, 1.65 * sqrt(3))
Radii == {2858, 4700}
\* props.fitPadding: the default 1.15 and the smallest value the fit allows
Paddings == {1000, 1150}

-----------------------------------------------------------------------------
(* Program constants *)

\* frameId is undefined / null
None == 0
\* orbitAngle += 0.003, in 1/10000 rad
OrbitStep == 30
\* moon.position.set(3.1, 1.1, 0) and the 1.1 of tick, in 1/10000
MoonBaseY == 11000
\* Math.sin(...) * 0.18, in 1/100
MoonAmplitude == 18
\* tan(vFov / 2) for camera.fov = 45 degrees, in 1/1000
TanHalfVFov == 414
\* Math.max(0.1, ...), in 1/1000
MinNear == 100
\* new THREE.PerspectiveCamera(45, aspect, 0.1, 100): far, in 1/1000
InitFar == 100000
\* camera.position.set(0, 1.2, 6): distance from the origin, in 1/1000
InitDistance == 6119

Max(a, b) == IF a >= b THEN a ELSE b

\* Math.sin on the small angles the model reaches: x - x^3/6, x in 1/10000 rad
SinFx(x) == x - (x * x * x) \div 600000000

-----------------------------------------------------------------------------
(* The script's state as one record, so that its functions are operators *)

Cur == [frameId |-> frameId, pending |-> pending, nextHandle |-> nextHandle,
        isVisible |-> isVisible, orbitAngle |-> orbitAngle,
        moonRotY |-> moonRotY, moonY |-> moonY, displayed |-> displayed,
        renderer |-> renderer, log |-> <<>>]

\* one entry of the handler's trace: what was called, and what frameId read then
Log(s, op) == [s EXCEPT !.log = Append(@, [op |-> op, fid |-> s.frameId])]

Ops(l) == {l[i].op : i \in DOMAIN l}
Count(l, op) == Cardinality({i \in DOMAIN l : l[i].op = op})

\* window.requestAnimationFrame(tick): queues the callback, returns its handle
RequestAnimationFrame(s) ==
    [Log(s, "raf") EXCEPT !.pending = @ \cup {s.nextHandle},
                          !.nextHandle = @ + 1]

\* window.cancelAnimationFrame(h)
CancelAnimationFrame(s, h) ==
    [Log(s, "cancel") EXCEPT !.pending = @ \ {h}]

\* renderer.render(scene, camera)
Render(s) ==
    [Log(s, "render") EXCEPT !.displayed = <<s.moonRotY, s.moonY>>]

\* the "Moon orbit" lines with the sine taken of the whole angle, not of half
AnimationDriver_FullAngle(s) ==
    LET angle == s.orbitAngle + OrbitStep IN
    [Log(s, "update") EXCEPT
        !.orbitAngle = angle,
        !.moonRotY = angle,
        !.moonY = MoonBaseY + (SinFx(angle) * MoonAmplitude) \div 100]

\* the "Moon orbit" lines of tick
AnimationDriver(s) ==
    LET angle == s.orbitAngle + OrbitStep IN
    [Log(s, "update") EXCEPT
        !.orbitAngle = angle,
        !.moonRotY = angle,
        !.moonY = MoonBaseY + (SinFx(angle \div 2) * MoonAmplitude) \div 100]

\* startAnimation without its `if (frameId != null) return`
StartAnimation_NoGuard(s) ==
    LET e == Log(s, "start") IN
    [RequestAnimationFrame(e) EXCEPT !.frameId = e.nextHandle]

StartAnimation(s) ==
    LET e == Log(s, "start") IN
    IF e.frameId # None THEN e
    ELSE [RequestAnimationFrame(e) EXCEPT !.frameId = e.nextHandle]

\* stopAnimation clearing frameId without cancelAnimationFrame
StopAnimation_NoCancel(s) ==
    [Log(s, "stop") EXCEPT !.frameId = None]

\* stopAnimation clearing frameId first and cancelling the saved handle after
StopAnimation_ClearFirst(s) ==
    LET e == Log(s, "stop") IN
    IF e.frameId = None THEN e
    ELSE CancelAnimationFrame([e EXCEPT !.frameId = None], e.frameId)

\* stopAnimation without its `if (frameId == null) return`
StopAnimation_NoGuard(s) ==
    LET e == Log(s, "stop") IN
    [CancelAnimationFrame(e, e.frameId) EXCEPT !.frameId = None]

StopAnimation(s) ==
    LET e == Log(s, "stop") IN
    IF e.frameId = None THEN e
    ELSE [CancelAnimationFrame(e, e.frameId) EXCEPT !.frameId = None]

\* tick rescheduling itself without keeping the new handle
Tick_DropHandle(s, m) ==
    IF m \/ ~s.isVisible
    THEN [s EXCEPT !.frameId = None]
    ELSE Render(AnimationDriver(RequestAnimationFrame(s)))

\* tick rendering before the "Moon orbit" lines
Tick_RenderFirst(s, m) ==
    IF m \/ ~s.isVisible
    THEN [s EXCEPT !.frameId = None]
    ELSE AnimationDriver(Render(
             [RequestAnimationFrame(s) EXCEPT !.frameId = s.nextHandle]))

\* tick, with m the value of prefersReducedMotion?.matches
Tick(s, m) ==
    IF m \/ ~s.isVisible
    THEN [s EXCEPT !.frameId = None]
    ELSE Render(AnimationDriver(
             [RequestAnimationFrame(s) EXCEPT !.frameId = s.nextHandle]))

\* handlePRM without the render that follows stopAnimation
HandlePRM_NoRender(s, m) ==
    IF m THEN StopAnimation(s)
    ELSE IF s.isVisible THEN StartAnimation(s)
    ELSE s

\* handlePRM, with m the value of prefersReducedMotion.matches
HandlePRM(s, m) ==
    IF m THEN Render(StopAnimation(s))
    ELSE IF s.isVisible THEN StartAnimation(s)
    ELSE s

\* the IntersectionObserver callback, with e = entries[0]?.isIntersecting
IntersectionCallback(s, e, m) ==
    LET a == [s EXCEPT !.isVisible = e] IN
    IF a.isVisible /\ ~m THEN StartAnimation(a)
    ELSE Render(StopAnimation(a))

\* the visibilitychange listener without the restart when the document is shown
VisibilityListener_NoRestart(s, h, m) ==
    IF h THEN StopAnimation(s) ELSE s

\* the visibilitychange listener rendering after the stop, as the other two do
VisibilityListener_Render(s, h, m) ==
    IF h THEN Render(StopAnimation(s))
    ELSE IF s.isVisible /\ ~m THEN StartAnimation(s)
    ELSE s

\* the visibilitychange listener, with h = document.hidden
VisibilityListener(s, h, m) ==
    IF h THEN StopAnimation(s)
    ELSE IF s.isVisible /\ ~m THEN StartAnimation(s)
    ELSE s

\* the initial start without the reduced-motion test
InitialStart_Always(s, m) == StartAnimation(s)

\* the "Initial start" of onMounted
InitialStart(s, m) ==
    IF ~m THEN StartAnimation(s) ELSE Render(s)

\* onMounted going on to its initial start although init() threw
MountScheduler_IgnoreThrow(s, ok, m) ==
    InitialStart([s EXCEPT !.renderer = IF ok THEN "live" ELSE s.renderer], m)

\* what onMounted does to the script's state: init() creates the renderer and
\* the initial start follows; when the WebGLRenderer constructor throws
\* (ok = FALSE) the exception leaves onMounted at once
MountScheduler(s, ok, m) ==
    IF ok THEN InitialStart([s EXCEPT !.renderer = "live"], m)
    ELSE s

-----------------------------------------------------------------------------
(* Camera *)

NoCamera == [aspect |-> 0, distance |-> 0, near |-> 0, far |-> 0, radius |-> 0]

\* clientWidth / clientHeight, of a container that has a width and a height
Aspect(w, h) == (w * 1000) \div h

\* new THREE.PerspectiveCamera(45, aspect, 0.1, 100); camera.position.set(0, 1.2, 6)
NewCamera(w, h) ==
    [aspect |-> Aspect(w, h), distance |-> InitDistance, near |-> MinNear,
     far |-> InitFar, radius |-> 0]

\* frameScene with near one radius, not two, short of the distance
FrameScene_TightNear(c, r, p) ==
    LET tanH == (TanHalfVFov * c.aspect) \div 1000
        distV == (r * 1000) \div TanHalfVFov
        distH == (r * 1000) \div tanH
        distance == (Max(distV, distH) * p) \div 1000
    IN  [c EXCEPT !.distance = distance,
                  !.near = Max(MinNear, distance - r),
                  !.far = distance + r * 4,
                  !.radius = r]

\* frameScene, with r the radius of the bounding sphere of rootGroup and p the
\* padding; tan(hFov / 2) = tan(atan(tan(vFov / 2) * aspect))
FrameScene(c, r, p) ==
    LET tanH == (TanHalfVFov * c.aspect) \div 1000
        distV == (r * 1000) \div TanHalfVFov
        distH == (r * 1000) \div tanH
        distance == (Max(distV, distH) * p) \div 1000
    IN  [c EXCEPT !.distance = distance,
                  !.near = Max(MinNear, distance - r * 2),
                  !.far = distance + r * 4,
                  !.radius = r]

\* onWindowResize without its `if (!container.value) return`
OnWindowResize_NoGuard(c, present, w, h, r, p) ==
    FrameScene([c EXCEPT !.aspect = Aspect(w, h)], r, p)

\* onWindowResize, with present = container.value is set
OnWindowResize(c, present, w, h, r, p) ==
    IF ~present THEN c
    ELSE FrameScene([c EXCEPT !.aspect = Aspect(w, h)], r, p)

\* the renderer.setSize(clientWidth, clientHeight) of onWindowResize
SetSizeOnResize(size, present, w, h) ==
    IF ~present THEN size ELSE <<w, h>>

-----------------------------------------------------------------------------
(* State after construction of the component (script setup has run) *)

Init ==
    /\ phase = "setup"
    /\ container = FALSE
    /\ reducedMotion \in BOOLEAN
    /\ docHidden \in BOOLEAN
    /\ mql = FALSE
    /\ frameId = None
    /\ pending = {}
    /\ nextHandle = 1
    /\ isVisible = TRUE
    /\ orbitAngle = 0
    /\ moonRotY = 0
    /\ moonY = MoonBaseY
    /\ displayed = <<>>
    /\ renderer = "none"
    /\ camera = NoCamera
    /\ rendererSize = <<0, 0>>
    /\ ticks = 0
    /\ fitPadding \in Paddings
    /\ prmListeners = {}
    /\ visListeners = {}
    /\ resizeListeners = {}
    /\ ioObserving = FALSE
    /\ log = <<>>
    /\ last = "none"

\* the script's state after a handler returned r; the two guards cap the
\* counters of the model
Commit(r) ==
    /\ r.nextHandle <= MaxHandle + 1
    /\ r.orbitAngle <= MaxTicks * OrbitStep
    /\ frameId' = r.frameId
    /\ pending' = r.pending
    /\ nextHandle' = r.nextHandle
    /\ isVisible' = r.isVisible
    /\ orbitAngle' = r.orbitAngle
    /\ moonRotY' = r.moonRotY
    /\ moonY' = r.moonY
    /\ displayed' = r.displayed
    /\ renderer' = r.renderer
    /\ log' = r.log

NoHandler ==
    /\ UNCHANGED <<frameId, pending, nextHandle, isVisible, orbitAngle,
                   moonRotY, moonY, displayed, renderer>>
    /\ log' = <<>>

\* onMounted: init(), the three registrations and the initial start.  The
\* template ref is set before the hook runs.  ok = FALSE: the WebGLRenderer
\* constructor throws and the hook ends there.
OnMounted ==
    /\ phase = "setup"
    /\ last' = "onMounted"
    /\ container' = TRUE
    /\ UNCHANGED <<reducedMotion, docHidden, fitPadding, ticks>>
    /\ \E ok \in BOOLEAN, w \in 1..MaxDim, h \in 1..MaxDim, r \in Radii :
         IF ok
         THEN /\ phase' = "mounted"
              /\ rendererSize' = <<w, h>>
              /\ camera' = FrameScene(NewCamera(w, h), r, fitPadding)
              /\ resizeListeners' = resizeListeners \cup {"onWindowResize"}
              /\ mql' = TRUE
              /\ prmListeners' = prmListeners \cup {"handlePRM"}
              /\ ioObserving' = TRUE
              /\ visListeners' = visListeners \cup {"onVisibilityChange"}
              /\ Commit(MountScheduler(Cur, TRUE, reducedMotion))
         ELSE /\ phase' = "failed"
              /\ Commit(MountScheduler(Cur, FALSE, reducedMotion))
              /\ UNCHANGED <<camera, rendererSize, resizeListeners, mql,
                             prmListeners, ioObserving, visListeners>>

\* renderer?.dispose?.()
Dispose(s) ==
    IF s.renderer = "none" THEN s
    ELSE [Log(s, "dispose") EXCEPT !.renderer = "disposed"]

\* onBeforeUnmount; the framework clears the template ref right after the hook
OnBeforeUnmount ==
    /\ phase \in {"mounted", "failed"}
    /\ phase' = "unmounted"
    /\ last' = "onBeforeUnmount"
    /\ container' = FALSE
    /\ resizeListeners' = resizeListeners \ {"onWindowResize"}
    /\ prmListeners' = prmListeners \ {"() => {}"}
    /\ ioObserving' = FALSE
    /\ Commit(Dispose(StopAnimation(Cur)))
    /\ UNCHANGED <<reducedMotion, docHidden, mql, camera, rendererSize, ticks,
                   fitPadding, visListeners>>

\* the reduced-motion preference changes; the change event is dispatched
PRMChange ==
    /\ reducedMotion' = ~reducedMotion
    /\ last' = "prmchange"
    /\ IF "handlePRM" \in prmListeners
       THEN Commit(HandlePRM(Cur, reducedMotion'))
       ELSE NoHandler
    /\ UNCHANGED <<phase, container, docHidden, mql, camera, rendererSize,
                   ticks, fitPadding, prmListeners, visListeners,
                   resizeListeners, ioObserving>>

\* the observer delivers its entries; e is entries[0].isIntersecting
IntersectionNotify ==
    /\ ioObserving
    /\ last' = "intersection"
    /\ \E e \in BOOLEAN : Commit(IntersectionCallback(Cur, e, reducedMotion))
    /\ UNCHANGED <<phase, container, reducedMotion, docHidden, mql, camera,
                   rendererSize, ticks, fitPadding, prmListeners, visListeners, resizeListeners,
                   ioObserving>>

\* the document is hidden or shown; visibilitychange is dispatched
VisibilityChange ==
    /\ docHidden' = ~docHidden
    /\ last' = "visibilitychange"
    /\ IF visListeners # {}
       THEN Commit(VisibilityListener(Cur, docHidden', reducedMotion))
       ELSE NoHandler
    /\ UNCHANGED <<phase, container, reducedMotion, mql, camera, rendererSize,
                   ticks, fitPadding, prmListeners, visListeners,
                   resizeListeners, ioObserving>>

\* the frame primitive runs an outstanding callback; the primitive promises no
\* pause while the document is hidden, so a callback may fire then too
FrameFire ==
    /\ last' = "tick"
    /\ \E h \in pending :
         LET r == Tick([Cur EXCEPT !.pending = @ \ {h}], mql /\ reducedMotion)
         IN  /\ Commit(r)
             /\ ticks' = IF "update" \in Ops(r.log) THEN ticks + 1 ELSE ticks
    /\ UNCHANGED <<phase, container, reducedMotion, docHidden, mql, camera,
                   rendererSize, fitPadding, prmListeners, visListeners, resizeListeners,
                   ioObserving>>

\* a resize handler that also asks for the animation to start
Resize_Start ==
    /\ "onWindowResize" \in resizeListeners
    /\ last' = "resize"
    /\ \E w \in 1..MaxDim, h \in 1..MaxDim, r \in Radii :
         /\ camera' = OnWindowResize(camera, container, w, h, r, fitPadding)
         /\ rendererSize' = SetSizeOnResize(rendererSize, container, w, h)
    /\ Commit(StartAnimation(Cur))
    /\ UNCHANGED <<phase, container, reducedMotion, docHidden, mql, ticks,
                   fitPadding, prmListeners, visListeners, resizeListeners,
                   ioObserving>>

\* the window is resized to w x h; r is the bounding sphere's radius then
Resize ==
    /\ "onWindowResize" \in resizeListeners
    /\ last' = "resize"
    /\ \E w \in 1..MaxDim, h \in 1..MaxDim, r \in Radii :
         /\ camera' = OnWindowResize(camera, container, w, h, r, fitPadding)
         /\ rendererSize' = SetSizeOnResize(rendererSize, container, w, h)
    /\ NoHandler
    /\ UNCHANGED <<phase, container, reducedMotion, docHidden, mql, ticks,
                   fitPadding, prmListeners, visListeners, resizeListeners,
                   ioObserving>>

Next ==
    \/ OnMounted
    \/ OnBeforeUnmount
    \/ PRMChange
    \/ IntersectionNotify
    \/ VisibilityChange
    \/ FrameFire
    \/ Resize

Spec == Init /\ [][Next]_vars

\* The template ref is cleared while the component's listeners and hooks are
\* still to run: the case the guard of onWindowResize is written for.  The
\* framework clears the ref only after onBeforeUnmount, so Spec leaves this
\* step out; SpecDetached has it.
DetachContainer ==
    /\ phase \in {"mounted", "failed"}
    /\ container
    /\ container' = FALSE
    /\ last' = "detach"
    /\ NoHandler
    /\ UNCHANGED <<phase, reducedMotion, docHidden, mql, camera, rendererSize,
                   ticks, fitPadding, prmListeners, visListeners,
                   resizeListeners, ioObserving>>

NextDetached == Next \/ DetachContainer

SpecDetached == Init /\ [][NextDetached]_vars

\* The frame primitive runs a scheduled callback at the next display refresh:
\* a callback that stays scheduled is run in the end.  Resizes are left out
\* of this specification: onWindowResize touches nothing FrameFire reads.
NextLive ==
    \/ OnMounted
    \/ OnBeforeUnmount
    \/ PRMChange
    \/ IntersectionNotify
    \/ VisibilityChange
    \/ FrameFire

SpecLive == Init /\ [][NextLive]_vars /\ WF_vars(FrameFire)

-----------------------------------------------------------------------------
(* Claims *)

\* the handler of the last step called startAnimation / stopAnimation while
\* frameId was set / not set
StartedWhileRunning == \E i \in DOMAIN log : log[i].op = "start" /\ log[i].fid # None
StartedWhileStopped == \E i \in DOMAIN log : log[i].op = "start" /\ log[i].fid = None
StoppedWhileRunning == \E i \in DOMAIN log : log[i].op = "stop" /\ log[i].fid # None
StoppedWhileStopped == \E i \in DOMAIN log : log[i].op = "stop" /\ log[i].fid = None

\* C1: while mounted, a frame is scheduled exactly when the element intersects,
\* the document is visible and reduced motion is off
C1_RunningIffShouldAnimate ==
    phase = "mounted" =>
        ((frameId # None) <=> (isVisible /\ ~docHidden /\ ~reducedMotion))

\* C2: after teardown no step (a fired frame, a signal's handler) changes
\* frameId, isVisible or the set of scheduled frames
C2_InertAfterTeardown ==
    [][phase = "unmounted" => UNCHANGED <<frameId, isVisible, pending>>]_vars

\* C3: when teardown has released the renderer, it released it once, no frame
\* is scheduled and the three signal sources are detached
C3_ReleaseAfterDetach ==
    (last = "onBeforeUnmount" /\ renderer = "disposed") =>
        /\ Count(log, "dispose") = 1
        /\ frameId = None /\ pending = {}
        /\ prmListeners = {} /\ ~ioObserving /\ visListeners = {}

\* C4: no renderer.render is issued once the renderer is disposed
C4_NoRenderAfterDispose ==
    renderer = "disposed" =>
        \A i \in DOMAIN log :
            log[i].op = "render" =>
                \E j \in DOMAIN log : j > i /\ log[j].op = "dispose"

\* C5: a handler that called startAnimation leaves exactly one frame scheduled,
\* frameId being its handle; called while a frame was scheduled it issued no
\* requestAnimationFrame and left the handle as it was, otherwise it issued one
C5_StartIdempotent ==
    \A i \in DOMAIN log :
        log[i].op = "start" =>
            /\ frameId # None /\ pending = {frameId}
            /\ IF log[i].fid # None
               THEN Count(log, "raf") = 0 /\ frameId = log[i].fid
               ELSE Count(log, "raf") = 1

C5_Witness ==
    /\ StartedWhileRunning
    /\ last \in {"intersection", "visibilitychange", "prmchange"}
    /\ Cardinality(pending) = 1

\* C6: a handler that called stopAnimation while no frame was scheduled issued
\* no cancelAnimationFrame and left the scheduler stopped
C6_StopIdempotent ==
    StoppedWhileStopped =>
        Count(log, "cancel") = 0 /\ frameId = None /\ pending = {}

C6_Witness == StoppedWhileStopped /\ Count(log, "cancel") = 0

\* the handler of the last step stopped a running scheduler because reduced
\* motion became true, or because the element stopped intersecting while
\* reduced motion is off
C7_Case ==
    /\ StoppedWhileRunning
    /\ \/ last = "prmchange" /\ reducedMotion
       \/ last = "intersection" /\ ~isVisible /\ ~reducedMotion

\* C7: such a stop cancels the scheduled frame and renders exactly once, the
\* scene being as the last frame left it
C7_StopRendersFrozenState ==
    C7_Case =>
        /\ Count(log, "cancel") = 1 /\ frameId = None /\ pending = {}
        /\ Count(log, "render") = 1
        /\ Count(log, "update") = 0
        /\ displayed = <<moonRotY, moonY>>
        /\ moonRotY = orbitAngle

C7_Witness == C7_Case /\ last = "prmchange" /\ orbitAngle > 0

\* the visibilitychange listener stopped a running scheduler because the
\* document became hidden
C8_Case == last = "visibilitychange" /\ docHidden /\ StoppedWhileRunning

C9_InitialState ==
    (last = "onMounted" /\ phase = "mounted") =>
        IF ~reducedMotion
        THEN /\ frameId # None /\ pending = {frameId}
             /\ Count(log, "raf") = 1 /\ Count(log, "render") = 0
        ELSE /\ frameId = None /\ pending = {}
             /\ Count(log, "raf") = 0 /\ Count(log, "render") = 1

C9_Witness ==
    /\ last = "onMounted" /\ phase = "mounted" /\ reducedMotion
    /\ Count(log, "render") = 1

\* C10: once the camera is fitted, near < far and the bounding sphere lies
\* strictly between the near and far planes
C10_SphereBetweenPlanes ==
    renderer # "none" =>
        /\ camera.near < camera.far
        /\ camera.near < camera.distance - camera.radius
        /\ camera.distance + camera.radius < camera.far
        /\ camera.near = Max(MinNear, camera.distance - 2 * camera.radius)
        /\ camera.far = camera.distance + 4 * camera.radius

\* a resize to a portrait container: the horizontal fit decides the distance
C10_Witness ==
    /\ last = "resize"
    /\ camera.aspect < 1000
    /\ camera.distance > (((camera.radius * 1000) \div TanHalfVFov) * fitPadding) \div 1000
    /\ camera.near > MinNear

\* the orbit after N = ticks frames: 0.003 N, and the offset 1.1 + 0.18 sin(0.0015 N)
C11_OrbitState ==
    /\ orbitAngle = OrbitStep * ticks
    /\ moonRotY = orbitAngle
    /\ moonY = MoonBaseY + (SinFx(15 * ticks) * MoonAmplitude) \div 100

\* C11: after N frame callbacks ran the AnimationDriver the orbit angle is
\* 0.003 N and the moon's offset 1.1 + 0.18 sin(0.0015 N); the angle never
\* decreases and only a frame callback that animates changes it
C11_OrbitAfterNTicks ==
    /\ []C11_OrbitState
    /\ [][/\ orbitAngle' >= orbitAngle
          /\ orbitAngle' # orbitAngle =>
                 last' = "tick" /\ "update" \in Ops(log')]_vars

C11_Witness ==
    /\ ticks = 2 /\ orbitAngle = 2 * OrbitStep
    /\ last \in {"resize", "intersection", "prmchange", "visibilitychange"}

\* the mount failed: init() threw before the renderer was assigned
C12_MountFailed == phase \in {"failed", "unmounted"} /\ renderer = "none"

\* C12: when the renderer constructor throws, the mount ends there (no second
\* attempt, nothing registered), no frame is ever scheduled and nothing is
\* rendered, and a later teardown completes, calling neither
\* cancelAnimationFrame nor dispose
C12_FailedMountInert ==
    C12_MountFailed =>
        /\ frameId = None /\ pending = {} /\ nextHandle = 1
        /\ displayed = <<>> /\ ticks = 0
        /\ camera = NoCamera
        /\ prmListeners = {} /\ visListeners = {} /\ resizeListeners = {}
        /\ ~ioObserving /\ ~mql
        /\ Ops(log) \subseteq {"stop"}
        /\ ~ENABLED OnMounted

C12_Witness ==
    /\ C12_MountFailed /\ phase = "unmounted"
    /\ last \in {"prmchange", "visibilitychange"}

\* position of the first entry op in a handler's trace (0: none)
IndexOf(l, op) ==
    IF op \in Ops(l) THEN CHOOSE i \in DOMAIN l :
                              l[i].op = op /\ \A j \in 1..(i - 1) : l[j].op # op
    ELSE 0

\* the three signals are favourable
ShouldAnimate == isVisible /\ ~docHidden /\ ~reducedMotion

\* C13: a fired frame callback runs the AnimationDriver, then renders, and
\* reschedules itself exactly when the element intersects, the document is
\* visible and reduced motion is off
C13_TickReschedulesIffShouldAnimate ==
    last = "tick" =>
        /\ Count(log, "update") = 1 /\ Count(log, "render") = 1
        /\ IndexOf(log, "update") < IndexOf(log, "render")
        /\ ("raf" \in Ops(log)) <=> ShouldAnimate

\* C14: the AnimationDriver runs only in a fired frame callback, once, and
\* before that frame's single render, which draws the transform it left
C14_UpdateBeforeRender ==
    /\ "update" \in Ops(log) =>
           /\ last = "tick"
           /\ Count(log, "update") = 1 /\ Count(log, "render") = 1
           /\ IndexOf(log, "update") < IndexOf(log, "render")
           /\ displayed = <<moonRotY, moonY>>
           /\ C11_OrbitState
    /\ (last = "tick" /\ "render" \in Ops(log)) => "update" \in Ops(log)

C14_Witness ==
    /\ last = "tick" /\ "update" \in Ops(log)
    /\ ticks = 2 /\ displayed = <<2 * OrbitStep, moonY>>

\* C15: while the scheduler is stopped no callback is outstanding, the handle
\* a stop cancelled is outstanding no more, and a frame callback fires only
\* while a frame is scheduled
C15_StopIsSynchronous ==
    /\ [](/\ frameId = None => pending = {}
          /\ \A i \in DOMAIN log :
                 log[i].op = "stop" =>
                     frameId = None /\ log[i].fid \notin pending)
    /\ [][last' = "tick" => frameId # None /\ frameId \in pending]_vars

C15_Witness ==
    /\ StoppedWhileRunning /\ frameId = None /\ ticks >= 1
    /\ ~ENABLED FrameFire

\* C16: a resize notification schedules and cancels nothing and leaves
\* frameId, isVisible and the orbit as they were
C16_ResizeKeepsScheduler ==
    [][last' = "resize" =>
           /\ UNCHANGED <<frameId, pending, nextHandle, isVisible, orbitAngle,
                          moonRotY, moonY, ticks>>
           /\ log' = <<>>]_vars

\* a resize that refitted the camera while a frame was scheduled
C16_Witness ==
    /\ last = "resize" /\ frameId # None /\ pending = {frameId} /\ ticks >= 1
    /\ camera.aspect # 1000 /\ rendererSize[1] # rendererSize[2]

\* C17: with the container absent, a resize notification changes neither the
\* camera nor the renderer size nor the scheduler, and teardown runs to its
\* end as it does with the container present
C17_AbsentContainerBenign ==
    /\ [][(last' = "resize" /\ ~container) =>
              /\ UNCHANGED <<camera, rendererSize, frameId, pending,
                             nextHandle, isVisible, orbitAngle, renderer>>
              /\ log' = <<>>]_vars
    /\ [][(last' = "onBeforeUnmount" /\ ~container) =>
              /\ phase' = "unmounted"
              /\ frameId' = None /\ pending' = {}
              /\ renderer' = IF renderer = "none" THEN "none" ELSE "disposed"
              /\ resizeListeners' = {} /\ ~ioObserving']_vars

\* a resize reached onWindowResize while the container was absent and a frame
\* was scheduled
C17_Witness ==
    /\ last = "resize" /\ ~container /\ phase = "mounted"
    /\ frameId # None /\ camera # NoCamera

\* C18: between handlers at most one frame callback is outstanding, frameId
\* is set exactly when one is, and it is then the handle of that callback, a
\* handle the primitive has handed out and not yet fired or cancelled
C18_HandleConsistent ==
    /\ Cardinality(pending) <= 1
    /\ (frameId # None) <=> (pending # {})
    /\ frameId # None => pending = {frameId}
    /\ \A h \in pending : 1 <= h /\ h < nextHandle

\* a callback that rescheduled itself after an earlier stop and restart
C18_Witness ==
    /\ last = "tick" /\ pending = {frameId} /\ frameId >= 3 /\ ticks >= 1
    /\ frameId = nextHandle - 1

\* mounted, and the three signals favourable
C19_Favourable == phase = "mounted" /\ ShouldAnimate

\* C19: before teardown, whenever the three signals are favourable a frame is
\* scheduled, a frame that fires then advances the orbit, renders and
\* reschedules, and the signals cannot stay favourable for ever without
\* frames firing, one after the other, up to the model's cap on frames
C19_NoStarvation ==
    /\ [](C19_Favourable =>
              /\ frameId # None /\ pending = {frameId}
              /\ last = "tick" => Ops(log) = {"raf", "update", "render"})
    /\ []<>(~C19_Favourable \/ ticks = MaxTicks \/ nextHandle > MaxHandle)

\* the document is shown again and the listener restarted the stopped scheduler
C19_Witness ==
    /\ C19_Favourable /\ last = "visibilitychange" /\ StartedWhileStopped
    /\ frameId # None /\ ticks >= 1

\* C20 as stated: when cancelAnimationFrame is called frameId already reads
\* as unset
C20_ClearedBeforeCancel ==
    \A i \in DOMAIN log : log[i].op = "cancel" => log[i].fid = None

\* C20 as amended: when cancelAnimationFrame is called frameId still holds the
\* handle being cancelled; it is cleared after, before the handler returns
C20_CancelledBeforeClear ==
    \A i \in DOMAIN log :
        log[i].op = "cancel" =>
            /\ log[i].fid # None
            /\ log[i].fid \notin pending
            /\ frameId = None
            /\ i > 1 /\ log[i - 1] = [op |-> "stop", fid |-> log[i].fid]

C20_Witness ==
    /\ "cancel" \in Ops(log) /\ frameId = None
    /\ last \in {"prmchange", "intersection", "visibilitychange"}

====
